---------------------------- MODULE Spec2Model ----------------------------
(***************************************************************************)
(* A model of convert_raw_to_png.py: the reassembly of a four-band raw     *)
(* capture into an RGGB Bayer mosaic, the demosaic adapter, the per-file   *)
(* conversion and the batch driver.                                        *)
(*                                                                         *)
(* Arrays are 0-based, as in the source.  A 1-D array is a record          *)
(* [n, d] with d a function on 0..n-1; a 2-D array is a record [h, w, d]   *)
(* with d a function on (0..h-1) \X (0..w-1).  A call that can raise       *)
(* returns Ok(value) or Raise(exception name).                             *)
(***************************************************************************)
EXTENDS Integers, Sequences, FiniteSets, TLC

----------------------------------------------------------------------------
(* Bounds of the model.  The sensor geometry of the source (4832 x 2144,   *)
(* 248 elements of padding) is scaled down: every geometry with            *)
(* height = 4*q, q in 1..MaxBandRows, width in 1..MaxWidth and padding in  *)
(* 0..MaxPad is explored.                                                  *)
MaxBandRows == 2
MaxWidth == 2
MaxPad == 2

Min(a, b) == IF a < b THEN a ELSE b
Max(a, b) == IF a > b THEN a ELSE b

Ok(v) == [ok |-> TRUE, val |-> v]
Raise(e) == [ok |-> FALSE, exc |-> e]

U16Max == 65535

----------------------------------------------------------------------------
(* numpy primitives used by the source *)

Cells(h, w) == (0 .. h - 1) \X (0 .. w - 1)

(* np.fromfile(fn, dtype=np.uint16, count=count): at most count elements;  *)
(* a file holding fewer yields the shorter array, a file that cannot be    *)
(* opened raises.  The faulty variant zero-fills up to count.              *)
fromfileZeroFilled(fn, count) ==
  IF ~fn.readable THEN Raise("OSError")
  ELSE Ok([n |-> count,
           d |-> [k \in 0 .. count - 1 |-> IF k < fn.n THEN fn.d[k] ELSE 0]])

fromfile(fn, count) ==
  IF ~fn.readable THEN Raise("OSError")
  ELSE LET m == Min(count, fn.n)
       IN Ok([n |-> m, d |-> [k \in 0 .. m - 1 |-> fn.d[k]]])

(* buffer[start:] *)
SliceFrom(a, start) ==
  LET m == Max(0, a.n - start)
  IN [n |-> m, d |-> [k \in 0 .. m - 1 |-> a.d[k + start]]]

(* a.reshape(h, w): row-major; raises when the sizes differ *)
reshape(a, h, w) ==
  IF a.n # h * w THEN Raise("ValueError")
  ELSE Ok([h |-> h, w |-> w,
           d |-> [p \in Cells(h, w) |-> a.d[p[1] * w + p[2]]]])

(* img[lo:hi, :] *)
RowSlice(img, lo, hi) ==
  LET a == Min(lo, img.h)
      b == Max(a, Min(hi, img.h))
  IN [h |-> b - a, w |-> img.w,
      d |-> [p \in Cells(b - a, img.w) |-> img.d[<<p[1] + a, p[2]>>]]]

(* np.zeros((h, w), dtype=np.uint16) *)
zeros(h, w) == [h |-> h, w |-> w, d |-> [p \in Cells(h, w) |-> 0]]

(* the cells addressed by img[r0::2, c0::2] *)
StridedCells(img, r0, c0) ==
  {p \in Cells(img.h, img.w) : p[1] >= r0 /\ (p[1] - r0) % 2 = 0
                               /\ p[2] >= c0 /\ (p[2] - c0) % 2 = 0}

(* img[r0::2, c0::2] = chan *)
SetStrided(img, r0, c0, chan) ==
  [img EXCEPT !.d = [p \in Cells(img.h, img.w) |->
      IF p \in StridedCells(img, r0, c0)
      THEN chan.d[<<(p[1] - r0) \div 2, (p[2] - c0) \div 2>>]
      ELSE img.d[p]]]

----------------------------------------------------------------------------
(* reconstruct_interlaced_image *)

(* The start offsets of the four strided assignments, in the order of the  *)
(* source: Red (0,0), Green1 (0,1), Green2 (1,0), Blue (1,1).  The faulty  *)
(* variant writes Blue onto Green2's phase.                                *)
PhaseOffsetsBlueOnGreen2 == <<<<0, 0>>, <<0, 1>>, <<1, 0>>, <<1, 0>>>>

PhaseOffsets == <<<<0, 0>>, <<0, 1>>, <<1, 0>>, <<1, 1>>>>

(* the image after the first k strided assignments *)
RECURSIVE Scatter(_, _, _)
Scatter(img, chans, k) ==
  IF k = 0 THEN img
  ELSE SetStrided(Scatter(img, chans, k - 1),
                  PhaseOffsets[k][1], PhaseOffsets[k][2], chans[k])

reconstruct_interlaced_image(r_channel, g1_channel, g2_channel, b_channel) ==
  LET channel_height == r_channel.h
      channel_width == r_channel.w
      full_height == channel_height * 2
      full_width == channel_width * 2
  IN Scatter(zeros(full_height, full_width),
             <<r_channel, g1_channel, g2_channel, b_channel>>, 4)

----------------------------------------------------------------------------
(* demosaic_with_colour_demosaicing.  Floats are exact fractions           *)
(* <<numerator, denominator>>; a zero denominator is the nan or inf of a   *)
(* division by zero (numpy warns and does not raise).  The three library   *)
(* routines are injected deterministic functions: a call is the term       *)
(* naming the routine and its arguments.                                   *)

astype_float32(img) == [img EXCEPT !.d = [p \in DOMAIN img.d |-> <<img.d[p], 1>>]]

np_max(img) ==
  CHOOSE m \in {img.d[p][1] : p \in DOMAIN img.d} :
     \A p \in DOMAIN img.d : img.d[p][1] <= m

Divide(img, max_val) ==
  [img EXCEPT !.d = [p \in DOMAIN img.d |->
      <<img.d[p][1], img.d[p][2] * max_val>>]]

(* if max_val > 1.0; the faulty variant divides unconditionally *)
NeedsNormalizeAlways(max_val) == TRUE

NeedsNormalize(max_val) == max_val > 1

Call(routine, img) == [routine |-> routine, cfa |-> img, pattern |-> "RGGB"]

(* the if / elif / else chain; the faulty variant has no default arm *)
DispatchNoDefault(algorithm, img) ==
  IF algorithm = "bilinear" THEN Ok(Call("demosaicing_CFA_Bayer_bilinear", img))
  ELSE IF algorithm = "malvar2004" THEN Ok(Call("demosaicing_CFA_Bayer_Malvar2004", img))
  ELSE IF algorithm = "menon2007" THEN Ok(Call("demosaicing_CFA_Bayer_Menon2007", img))
  ELSE Raise("ValueError")

Dispatch(algorithm, img) ==
  IF algorithm = "bilinear" THEN Ok(Call("demosaicing_CFA_Bayer_bilinear", img))
  ELSE IF algorithm = "malvar2004" THEN Ok(Call("demosaicing_CFA_Bayer_Malvar2004", img))
  ELSE IF algorithm = "menon2007" THEN Ok(Call("demosaicing_CFA_Bayer_Menon2007", img))
  ELSE Ok(Call("demosaicing_CFA_Bayer_Menon2007", img))

(* The result records what the adapter did: the routine call, the factor   *)
(* of the scale back, the clip range and the final dtype, and whether and  *)
(* by what the grid was divided.                                           *)
demosaic_with_colour_demosaicing(interlaced_img, algorithm) ==
  LET f32 == astype_float32(interlaced_img)
      max_val == np_max(f32)
      divided == NeedsNormalize(max_val)
      arg == IF divided THEN Divide(f32, max_val) ELSE f32
      rgb == Dispatch(algorithm, arg)
  IN IF ~rgb.ok THEN rgb
     ELSE Ok([call |-> rgb.val, times |-> max_val, clip |-> <<0, U16Max>>,
              dtype |-> "uint16", divided |-> divided,
              divisor |-> IF divided THEN max_val ELSE -1])

----------------------------------------------------------------------------
(* load_prores_raw.  geom is the geometry the source fixes in its first    *)
(* two statements (height, width = 4832, 2144; padding = 248), scaled.     *)

Geometries ==
  {[height |-> 4 * q, width |-> w, padding |-> p] :
      q \in 1 .. MaxBandRows, w \in 1 .. MaxWidth, p \in 0 .. MaxPad}

Total(geom) == geom.padding + geom.width * geom.height

(* buffer = np.fromfile(...); img = buffer[padding:].reshape(height, width) *)
ReadGrid(fn, geom) ==
  LET buffer == fromfile(fn, Total(geom))
  IN IF ~buffer.ok THEN buffer
     ELSE reshape(SliceFrom(buffer.val, geom.padding), geom.height, geom.width)

(* the four quarters in file order; the faulty variant takes Green2 before *)
(* Green1                                                                  *)
SplitChannelsSwapped(img, geom) ==
  LET quarter_height == geom.height \div 4
  IN << RowSlice(img, 0, quarter_height),
        RowSlice(img, 2 * quarter_height, 3 * quarter_height),
        RowSlice(img, quarter_height, 2 * quarter_height),
        RowSlice(img, 3 * quarter_height, 4 * quarter_height) >>

SplitChannels(img, geom) ==
  LET quarter_height == geom.height \div 4
  IN << RowSlice(img, 0, quarter_height),
        RowSlice(img, quarter_height, 2 * quarter_height),
        RowSlice(img, 2 * quarter_height, 3 * quarter_height),
        RowSlice(img, 3 * quarter_height, 4 * quarter_height) >>

load_prores_raw(fn, demosaic_algorithm, geom) ==
  LET img == ReadGrid(fn, geom)
  IN IF ~img.ok THEN img
     ELSE LET ch == SplitChannels(img.val, geom)
              interlaced_img == reconstruct_interlaced_image(ch[1], ch[2], ch[3], ch[4])
              rgb_img == demosaic_with_colour_demosaicing(interlaced_img, demosaic_algorithm)
          IN IF ~rgb_img.ok THEN rgb_img
             ELSE Ok(<<interlaced_img, rgb_img.val>>)

----------------------------------------------------------------------------
(* Input files.  A file is [readable, n, d]: n 16-bit elements d[0..n-1].  *)
(* The header elements (9000 + k) and the elements past the grid (5000)    *)
(* carry values that no band holds; the grid holds four constant bands or  *)
(* a ramp of pairwise distinct values.                                     *)

BandValues ==
  [1 .. 4 -> {0, 1}] \cup {<<100, 200, 300, 400>>, <<2, 2, 2, 2>>}

Patterns ==
  {[kind |-> "bands", v |-> v] : v \in BandValues}
     \cup {[kind |-> "ramp", v |-> <<0, 0, 0, 0>>]}

ElementOf(geom, pat, k) ==
  LET idx == k - geom.padding
      band == idx \div ((geom.height \div 4) * geom.width)
  IN IF idx < 0 THEN 9000 + k
     ELSE IF band > 3 THEN 5000
     ELSE IF pat.kind = "ramp" THEN idx + 1
     ELSE pat.v[band + 1]

FileOf(geom, pat, len) ==
  [readable |-> TRUE, n |-> len,
   d |-> [k \in 0 .. len - 1 |-> ElementOf(geom, pat, k)]]

Unreadable == [readable |-> FALSE, n |-> 0, d |-> <<>>]

KnownAlgorithms == {"bilinear", "malvar2004", "menon2007"}
Selectors == KnownAlgorithms \cup {"nearest", ""}

----------------------------------------------------------------------------
(* The state of one call of load_prores_raw taken statement by statement.   *)

VARIABLES
  rpc,          \* position in load_prores_raw
  fn,           \* the input file
  geom,         \* the (scaled) geometry
  algorithm,    \* demosaic_algorithm
  img,          \* the reshaped grid
  chans,        \* <<r_channel, g1_channel, g2_channel, b_channel>>
  interlaced,   \* the mosaic under construction
  writes,       \* per mosaic cell, the number of assignments to it so far
  nwritten,     \* the number of strided assignments done
  rgb_img,      \* the adapter's result
  raised        \* the exception that left the call, or "none"

rawvars == <<rpc, fn, geom, algorithm, img, chans, interlaced, writes,
             nwritten, rgb_img, raised>>

NoArray == [h |-> 0, w |-> 0, d |-> <<>>]

RawIdle ==
  /\ img = NoArray /\ chans = <<>> /\ interlaced = NoArray
  /\ writes = <<>> /\ nwritten = 0 /\ rgb_img = <<>> /\ raised = "none"

----------------------------------------------------------------------------
(* The batch: main and convert_raw_to_png.                                 *)
(*                                                                         *)
(* An input path is [dir, stem]: directory component and base name without *)
(* the extension; dir "." is a path without directory component, which     *)
(* the process resolves in its working directory.  An output path is       *)
(* [dir, name] with name = <<stem, suffix>>.  A value that may be None is  *)
(* <<>> (None) or <<v>>.                                                   *)

MaxFiles == 3
MaxStems == 2

None == <<>>
Some(v) == <<v>>

Dirs == {".", "sub"}

(* the files a pattern can match: frame <stem>.raw in either directory, so *)
(* that two inputs may share a base name                                   *)
InputPaths == {[dir |-> d, stem |-> n] : d \in Dirs, n \in 1 .. MaxStems}
OutputDir == "out"

(* the geometry and the file contents the batch is run on *)
DriverGeometry == [height |-> 4, width |-> 1, padding |-> 2]
DriverFiles ==
  {FileOf(DriverGeometry, [kind |-> "ramp", v |-> <<0, 0, 0, 0>>], len) :
      len \in 0 .. Total(DriverGeometry) + 1} \cup {Unreadable}

(* the order of the path strings: "f1.raw" < "f2.raw" < "sub/f1.raw" *)
DirRank(d) == IF d = "." THEN 0 ELSE 1
PathLess(p, q) ==
  \/ DirRank(p.dir) < DirRank(q.dir)
  \/ p.dir = q.dir /\ p.stem < q.stem

(* sorted(glob.glob(pattern)) *)
RECURSIVE sorted(_)
sorted(S) ==
  IF S = {} THEN <<>>
  ELSE LET m == CHOOSE x \in S : \A y \in S \ {x} : PathLess(x, y)
       IN <<m>> \o sorted(S \ {m})

(* Python's truth value of an optional integer, an optional string or path *)
TruthyInt(opt) == opt # None /\ opt[1] # 0
TruthyRef(opt) == opt # None

(* os.path.splitext(os.path.basename(raw_file))[0] *)
base_name(raw_file) == raw_file.stem

(* the path of an output: os.path.join(output_dir, name), or the bare name *)
output_path(output_dir, raw_file, suffix) ==
  IF TruthyRef(output_dir)
  THEN [dir |-> output_dir[1], name |-> <<base_name(raw_file), suffix>>]
  ELSE [dir |-> ".", name |-> <<base_name(raw_file), suffix>>]

(* if i < args.start_frame: continue *)
SkipsFrame(a, idx) == idx < a.start_frame

(* if args.end_frame and i >= args.end_frame: break *)
BreaksAtFrame(a, idx) == TruthyInt(a.end_frame) /\ idx >= a.end_frame[1]

(* if args.output_dir and not os.path.exists(args.output_dir) *)
MustCreate(a, state) == TruthyRef(a.output_dir) /\ state = "absent"

(* except Exception; the faulty variant catches I/O errors only *)
CatchesOnlyOSError(exc) == exc = "OSError"

Catches(exc) == exc \in {"OSError", "ValueError"}

(* the files on disk after a failed conversion: nothing is removed; the    *)
(* faulty variant removes the outputs of the failed conversion             *)
DiskAfterFailureCleaned(files, c) ==
  files \ {c.interlaced_path[k] : k \in DOMAIN c.interlaced_path}

DiskAfterFailure(files, c) == files

(* if interlaced_path and rgb_path *)
Counted(ret) == TruthyRef(ret[1]) /\ TruthyRef(ret[2])

VARIABLES
  pc,               \* position in main / convert_raw_to_png
  args,             \* the parsed command line
  matched,          \* the paths the glob pattern matches
  outdir,           \* what args.output_dir names: "absent", "dir" or "file"
  disk,             \* the output paths written so far
  raw_files,        \* the sorted list
  i,                \* the loop index
  converted_count,
  cur,              \* the locals of the running convert_raw_to_png call
  ret,              \* the value the last call returned
  calls,            \* one record per finished call, in order
  errors,           \* the input paths named in an "Error converting" line
  summary           \* the count of the "Conversion complete!" line, or None

drivervars == <<pc, args, matched, outdir, disk, raw_files, i, converted_count,
                cur, ret, calls, errors, summary>>

vars == <<drivervars, rawvars>>

NoCall == [raw_file |-> None, idx |-> -1, readable |-> TRUE, len |-> -1,
           exc |-> "none", interlaced_path |-> None, rgb_path |-> None]

RawUnused ==
  /\ rpc = "unused" /\ fn = Unreadable /\ geom = DriverGeometry
  /\ algorithm = "menon2007" /\ RawIdle

Init ==
  /\ pc = "glob"
  /\ matched \in {S \in SUBSET InputPaths : Cardinality(S) <= MaxFiles}
  /\ \E od \in {None, Some(OutputDir)},
        sf \in 0 .. MaxFiles,
        ef \in {None} \cup {Some(e) : e \in 0 .. MaxFiles} :
        \E dm \in KnownAlgorithms :
        args = [output_dir |-> od, start_frame |-> sf, end_frame |-> ef,
                demosaic |-> dm]
  /\ outdir \in IF args.output_dir = None THEN {"absent"}
                ELSE {"absent", "dir", "file"}
  /\ disk = {}
  /\ raw_files = <<>>
  /\ i = 0
  /\ converted_count = 0
  /\ cur = NoCall
  /\ ret = <<None, None>>
  /\ calls = <<>>
  /\ errors = {}
  /\ summary = None
  /\ RawUnused

(* lines 168-175: the sorted list; nothing matched ends the run *)
MainGlob ==
  /\ pc = "glob"
  /\ raw_files' = sorted(matched)
  /\ pc' = IF raw_files' = <<>> THEN "exit" ELSE "mkdir"
  /\ UNCHANGED <<args, matched, outdir, disk, i, converted_count, cur, ret,
                 calls, errors, summary, rawvars>>

(* lines 178-180: os.makedirs succeeds, or raises and ends the run *)
MainMkdir ==
  /\ pc = "mkdir"
  /\ IF MustCreate(args, outdir)
     THEN \E created \in BOOLEAN :
            IF created
            THEN outdir' = "dir" /\ pc' = "loop"
            ELSE outdir' = outdir /\ pc' = "crashed"
     ELSE outdir' = outdir /\ pc' = "loop"
  /\ UNCHANGED <<args, matched, disk, raw_files, i, converted_count, cur, ret,
                 calls, errors, summary, rawvars>>

(* lines 184-187: continue *)
LoopSkip ==
  /\ pc = "loop" /\ i < Len(raw_files)
  /\ SkipsFrame(args, i)
  /\ i' = i + 1
  /\ UNCHANGED <<pc, args, matched, outdir, disk, raw_files, converted_count,
                 cur, ret, calls, errors, summary, rawvars>>

(* lines 188-189: break *)
LoopBreak ==
  /\ pc = "loop" /\ i < Len(raw_files)
  /\ ~SkipsFrame(args, i) /\ BreaksAtFrame(args, i)
  /\ pc' = "summary"
  /\ UNCHANGED <<args, matched, outdir, disk, raw_files, i, converted_count,
                 cur, ret, calls, errors, summary, rawvars>>

(* the list is exhausted *)
LoopEnd ==
  /\ pc = "loop" /\ i >= Len(raw_files)
  /\ pc' = "summary"
  /\ UNCHANGED <<args, matched, outdir, disk, raw_files, i, converted_count,
                 cur, ret, calls, errors, summary, rawvars>>

(* line 191: the call *)
LoopCall ==
  /\ pc = "loop" /\ i < Len(raw_files)
  /\ ~SkipsFrame(args, i) /\ ~BreaksAtFrame(args, i)
  /\ cur' = [NoCall EXCEPT !.raw_file = Some(raw_files[i + 1]), !.idx = i]
  /\ pc' = "load"
  /\ UNCHANGED <<args, matched, outdir, disk, raw_files, i, converted_count,
                 ret, calls, errors, summary, rawvars>>

(* line 119: load_prores_raw on whatever the file holds *)
ConvertLoad ==
  /\ pc = "load"
  /\ \E data \in DriverFiles :
        LET r == load_prores_raw(data, args.demosaic, DriverGeometry)
        IN /\ cur' = [cur EXCEPT !.readable = data.readable, !.len = data.n,
                                 !.exc = IF r.ok THEN "none" ELSE r.exc]
           /\ pc' = IF r.ok THEN "save_interlaced" ELSE "except"
  /\ UNCHANGED <<args, matched, outdir, disk, raw_files, i, converted_count,
                 ret, calls, errors, summary, rawvars>>

(* Image.save: a write into a path that is no directory fails, and any     *)
(* write may fail (OSError)                                                *)
SaveOutcomes(path) ==
  IF path.dir = OutputDir /\ outdir # "dir" THEN {FALSE} ELSE {TRUE, FALSE}

(* lines 122-135 *)
ConvertSaveInterlaced ==
  /\ pc = "save_interlaced"
  /\ LET interlaced_path == output_path(args.output_dir, cur.raw_file[1], "_interlaced.png")
     IN \E saved \in SaveOutcomes(interlaced_path) :
          IF saved
          THEN /\ disk' = disk \cup {interlaced_path}
               /\ cur' = [cur EXCEPT !.interlaced_path = Some(interlaced_path)]
               /\ pc' = "save_rgb"
          ELSE /\ disk' = disk
               /\ cur' = [cur EXCEPT !.exc = "OSError"]
               /\ pc' = "except"
  /\ UNCHANGED <<args, matched, outdir, raw_files, i, converted_count, ret,
                 calls, errors, summary, rawvars>>

(* lines 137-149 *)
ConvertSaveRgb ==
  /\ pc = "save_rgb"
  /\ LET rgb_path == output_path(args.output_dir, cur.raw_file[1], "_rgb.png")
     IN \E saved \in SaveOutcomes(rgb_path) :
          IF saved
          THEN /\ disk' = disk \cup {rgb_path}
               /\ cur' = [cur EXCEPT !.rgb_path = Some(rgb_path)]
               /\ ret' = <<cur.interlaced_path, Some(rgb_path)>>
               /\ pc' = "returned"
          ELSE /\ disk' = disk
               /\ cur' = [cur EXCEPT !.exc = "OSError"]
               /\ ret' = ret
               /\ pc' = "except"
  /\ UNCHANGED <<args, matched, outdir, raw_files, i, converted_count, calls,
                 errors, summary, rawvars>>

(* lines 151-153 *)
ConvertExcept ==
  /\ pc = "except"
  /\ IF Catches(cur.exc)
     THEN /\ errors' = errors \cup {cur.raw_file[1]}
          /\ ret' = <<None, None>>
          /\ pc' = "returned"
     ELSE /\ errors' = errors
          /\ ret' = ret
          /\ pc' = "crashed"
  /\ disk' = DiskAfterFailure(disk, cur)
  /\ UNCHANGED <<args, matched, outdir, raw_files, i, converted_count, cur,
                 calls, summary, rawvars>>

(* lines 191-193, and the next iteration *)
MainAfterCall ==
  /\ pc = "returned"
  /\ converted_count' = IF Counted(ret) THEN converted_count + 1
                        ELSE converted_count
  /\ calls' = Append(calls, [idx |-> cur.idx,
                             interlaced |-> cur.interlaced_path # None,
                             rgb |-> cur.rgb_path # None])
  /\ cur' = NoCall
  /\ i' = i + 1
  /\ pc' = "loop"
  /\ UNCHANGED <<args, matched, outdir, disk, raw_files, ret, errors, summary,
                 rawvars>>

(* line 195 *)
MainSummary ==
  /\ pc = "summary"
  /\ summary' = Some(converted_count)
  /\ pc' = "exit"
  /\ UNCHANGED <<args, matched, outdir, disk, raw_files, i, converted_count,
                 cur, ret, calls, errors, rawvars>>

Next ==
  \/ MainGlob \/ MainMkdir
  \/ LoopSkip \/ LoopBreak \/ LoopEnd \/ LoopCall
  \/ ConvertLoad \/ ConvertSaveInterlaced \/ ConvertSaveRgb \/ ConvertExcept
  \/ MainAfterCall \/ MainSummary

Spec == Init /\ [][Next]_vars

----------------------------------------------------------------------------
(* One call of load_prores_raw, statement by statement.                    *)

DriverUnused ==
  /\ pc = "unused"
  /\ args = [output_dir |-> None, start_frame |-> 0, end_frame |-> None,
              demosaic |-> "menon2007"]
  /\ matched = {} /\ outdir = "absent" /\ disk = {} /\ raw_files = <<>>
  /\ i = 0 /\ converted_count = 0 /\ cur = NoCall /\ ret = <<None, None>>
  /\ calls = <<>> /\ errors = {} /\ summary = None

RawInit ==
  /\ DriverUnused
  /\ rpc = "read"
  /\ geom \in Geometries
  /\ \E pat \in Patterns, len \in 0 .. Total(geom) + 1 :
        fn = FileOf(geom, pat, len)
  /\ algorithm \in Selectors
  /\ RawIdle

(* lines 96-97 *)
RawRead ==
  /\ rpc = "read"
  /\ LET r == ReadGrid(fn, geom)
     IN IF r.ok
        THEN /\ img' = r.val
             /\ rpc' = "split"
             /\ UNCHANGED raised
        ELSE /\ raised' = r.exc
             /\ rpc' = "raised"
             /\ UNCHANGED img
  /\ UNCHANGED <<fn, geom, algorithm, chans, interlaced, writes, nwritten, rgb_img,
                 drivervars>>

(* lines 100-104, and the allocation of line 38 *)
RawSplit ==
  /\ rpc = "split"
  /\ chans' = SplitChannels(img, geom)
  /\ interlaced' = zeros(chans'[1].h * 2, chans'[1].w * 2)
  /\ writes' = [p \in Cells(chans'[1].h * 2, chans'[1].w * 2) |-> 0]
  /\ rpc' = "scatter"
  /\ UNCHANGED <<fn, geom, algorithm, img, nwritten, rgb_img, raised,
                 drivervars>>

(* one of the four strided assignments of lines 42-51 *)
RawScatter ==
  /\ rpc = "scatter"
  /\ LET k == nwritten + 1
         r0 == PhaseOffsets[k][1]
         c0 == PhaseOffsets[k][2]
     IN /\ interlaced' = SetStrided(interlaced, r0, c0, chans[k])
        /\ writes' = [p \in DOMAIN writes |->
                        writes[p] + IF p \in StridedCells(interlaced, r0, c0)
                                    THEN 1 ELSE 0]
        /\ nwritten' = k
        /\ rpc' = IF k = 4 THEN "demosaic" ELSE "scatter"
  /\ UNCHANGED <<fn, geom, algorithm, img, chans, rgb_img, raised,
                 drivervars>>

(* line 110 *)
RawDemosaic ==
  /\ rpc = "demosaic"
  /\ LET r == demosaic_with_colour_demosaicing(interlaced, algorithm)
     IN IF r.ok
        THEN /\ rgb_img' = r.val
             /\ rpc' = "returned"
             /\ UNCHANGED raised
        ELSE /\ raised' = r.exc
             /\ rpc' = "raised"
             /\ UNCHANGED rgb_img
  /\ UNCHANGED <<fn, geom, algorithm, img, chans, interlaced, writes, nwritten,
                 drivervars>>

RawNext == RawRead \/ RawSplit \/ RawScatter \/ RawDemosaic

SpecRaw == RawInit /\ [][RawNext]_vars

----------------------------------------------------------------------------
(* Properties of load_prores_raw, stated of SpecRaw.                       *)

Hundreds == [kind |-> "bands", v |-> <<100, 200, 300, 400>>]
AllZero == [kind |-> "bands", v |-> <<0, 0, 0, 0>>]
Ramp == [kind |-> "ramp", v |-> <<0, 0, 0, 0>>]

(* element (i, j) of band b (0 Red, 1 Green1, 2 Green2, 3 Blue), read      *)
(* straight from the file                                                  *)
BandElement(b, ii, jj) ==
  fn.d[geom.padding + (b * (geom.height \div 4) + ii) * geom.width + jj]

Reassembled == rpc \in {"demosaic", "returned"}

(* C1: whenever the file holds at least PAD + H*W elements the call does   *)
(* not raise, and the mosaic it builds has shape (H/2, 2W) with            *)
(* mosaic[2i][2j] = Red[i][j], mosaic[2i][2j+1] = Green1[i][j],            *)
(* mosaic[2i+1][2j] = Green2[i][j], mosaic[2i+1][2j+1] = Blue[i][j]; the   *)
(* constant bands 100, 200, 300, 400 give that 2x2 tile everywhere.        *)
C1_MosaicLayout ==
  /\ fn.n >= Total(geom) => raised = "none"
  /\ Reassembled =>
       /\ fn.n >= Total(geom)
       /\ interlaced.h = geom.height \div 2
       /\ interlaced.w = 2 * geom.width
       /\ DOMAIN interlaced.d = Cells(geom.height \div 2, 2 * geom.width)
       /\ \A ii \in 0 .. (geom.height \div 4) - 1, jj \in 0 .. geom.width - 1 :
            /\ interlaced.d[<<2 * ii, 2 * jj>>] = BandElement(0, ii, jj)
            /\ interlaced.d[<<2 * ii, 2 * jj + 1>>] = BandElement(1, ii, jj)
            /\ interlaced.d[<<2 * ii + 1, 2 * jj>>] = BandElement(2, ii, jj)
            /\ interlaced.d[<<2 * ii + 1, 2 * jj + 1>>] = BandElement(3, ii, jj)
       /\ fn = FileOf(geom, Hundreds, fn.n) =>
            \A p \in DOMAIN interlaced.d :
               interlaced.d[p] = 100 * (1 + 2 * (p[1] % 2) + (p[2] % 2))

C1_Witness ==
  /\ rpc = "returned"
  /\ geom.height = 4 * MaxBandRows /\ geom.width = MaxWidth /\ geom.padding = MaxPad
  /\ fn = FileOf(geom, Hundreds, Total(geom) + 1)
  /\ interlaced.d[<<0, 0>>] = 100 /\ interlaced.d[<<0, 1>>] = 200
  /\ interlaced.d[<<1, 0>>] = 300 /\ interlaced.d[<<1, 1>>] = 400

(* the cells of the k-th strided assignment *)
PhaseClass(k) == StridedCells(interlaced, PhaseOffsets[k][1], PhaseOffsets[k][2])

(* C2: the four stride-2 phase classes are pairwise disjoint, each holds   *)
(* h*w cells and together they hold all 4*h*w cells of the mosaic; after   *)
(* k assignments exactly the cells of the first k classes were written,    *)
(* each once; and after all four every cell holds the band cell mapped to  *)
(* it, so a cell is zero only if that band cell is zero.                   *)
C2_ExactlyOnce ==
  rpc \in {"scatter", "demosaic", "returned"} =>
    LET h == chans[1].h
        w == chans[1].w
    IN /\ \A k \in 1 .. 4 : chans[k].h = h /\ chans[k].w = w
       /\ \A k \in 1 .. 4 : Cardinality(PhaseClass(k)) = h * w
       /\ \A k, m \in 1 .. 4 : k # m => PhaseClass(k) \cap PhaseClass(m) = {}
       /\ Cardinality(DOMAIN interlaced.d) = 4 * h * w
       /\ UNION {PhaseClass(k) : k \in 1 .. 4} = DOMAIN interlaced.d
       /\ \A p \in DOMAIN writes :
            writes[p] = Cardinality({k \in 1 .. nwritten : p \in PhaseClass(k)})
       /\ \A p \in DOMAIN writes : writes[p] <= 1
       /\ nwritten = 4 =>
            \A p \in DOMAIN interlaced.d :
               /\ writes[p] = 1
               /\ \E k \in 1 .. 4 :
                    /\ p \in PhaseClass(k)
                    /\ k = 1 + 2 * (p[1] % 2) + (p[2] % 2)
                    /\ interlaced.d[p] = chans[k].d[<<p[1] \div 2, p[2] \div 2>>]

C2_Witness ==
  /\ rpc = "demosaic" /\ nwritten = 4
  /\ chans[1].h = MaxBandRows /\ chans[1].w = MaxWidth
  /\ fn = FileOf(geom, Ramp, Total(geom))
  /\ \A p \in DOMAIN writes : writes[p] = 1 /\ interlaced.d[p] # 0

(* C7: with a selector that is none of the three names the adapter does    *)
(* not raise and returns what it returns for "menon2007" on the same       *)
(* mosaic: the call of the Menon 2007 routine.                             *)
C7_UnknownSelectorIsMenon ==
  algorithm \notin KnownAlgorithms =>
    /\ rpc = "raised" => fn.n < Total(geom) /\ raised = "ValueError"
    /\ rpc = "returned" =>
         /\ rgb_img = demosaic_with_colour_demosaicing(interlaced, "menon2007").val
         /\ rgb_img.call.routine = "demosaicing_CFA_Bayer_Menon2007"

C7_Witness ==
  /\ rpc = "returned" /\ algorithm = "nearest"
  /\ fn = FileOf(geom, Hundreds, Total(geom))
  /\ rgb_img.call.routine = "demosaicing_CFA_Bayer_Menon2007"

MosaicMaxAtMost(m) == \A p \in DOMAIN interlaced.d : interlaced.d[p] <= m

(* C8: when the maximum of the mosaic is at most 1 (an all-zero mosaic     *)
(* included) the adapter divides nothing, hands the grid unscaled to the   *)
(* routine and returns; it divides only by a maximum greater than 1, so    *)
(* no cell handed to the routine has a zero denominator.                   *)
C8_NoDivisionByZero ==
  /\ rpc = "raised" => nwritten = 0
  /\ rpc = "returned" =>
       /\ MosaicMaxAtMost(1) =>
            /\ ~rgb_img.divided
            /\ rgb_img.call.cfa = astype_float32(interlaced)
       /\ rgb_img.divided =>
            /\ rgb_img.divisor > 1
            /\ ~MosaicMaxAtMost(1)
            /\ \E p \in DOMAIN interlaced.d : interlaced.d[p] = rgb_img.divisor
       /\ \A p \in DOMAIN rgb_img.call.cfa.d : rgb_img.call.cfa.d[p][2] # 0

C8_Witness ==
  /\ rpc = "returned"
  /\ fn = FileOf(geom, AllZero, Total(geom))
  /\ MosaicMaxAtMost(0)
  /\ ~rgb_img.divided

----------------------------------------------------------------------------
(* Properties of the batch, stated of Spec.                                *)

InCall == pc \in {"load", "save_interlaced", "save_rgb", "except", "returned"}

Positions == 0 .. Len(raw_files) - 1

CallIdx == {calls[k].idx : k \in 1 .. Len(calls)}

BothWritten == {k \in 1 .. Len(calls) : calls[k].interlaced /\ calls[k].rgb}

(* start inclusive, end exclusive when given *)
InFrameRange(k) ==
  /\ args.start_frame <= k
  /\ args.end_frame # None => k < args.end_frame[1]

(* C3: convert_raw_to_png is invoked on exactly the sorted positions i     *)
(* with start_frame <= i < end_frame (all i >= start_frame when end_frame  *)
(* is not given), each once and in ascending order.                        *)
C3_FrameRange ==
  /\ InCall => InFrameRange(cur.idx)
  /\ \A k \in 1 .. Len(calls) : InFrameRange(calls[k].idx)
  /\ \A k, m \in 1 .. Len(calls) : k < m => calls[k].idx < calls[m].idx
  /\ pc = "exit" /\ summary # None =>
       CallIdx = {k \in Positions : InFrameRange(k)}

(* the positions the frame filter of main lets through *)
Selected == {k \in Positions : ~SkipsFrame(args, k) /\ ~BreaksAtFrame(args, k)}

(* C4: a failing conversion never ends the run: every file the frame      *)
(* filter selects is attempted whichever files fail, a run that got past   *)
(* the directory creation always goes on to the summary, each failed file  *)
(* is reported, and the count of the summary is the number of files whose  *)
(* two writes both succeeded.                                              *)
C4_FailureIsolation ==
  /\ pc = "crashed" => calls = <<>> /\ cur = NoCall /\ i = 0
  /\ pc \notin {"exit", "crashed"} => ENABLED Next
  /\ \A k \in 1 .. Len(calls) :
       ~(calls[k].interlaced /\ calls[k].rgb) => raw_files[calls[k].idx + 1] \in errors
  /\ converted_count <= Len(calls)
  /\ pc = "exit" /\ raw_files # <<>> =>
       /\ summary # None
       /\ CallIdx = Selected
       /\ Len(calls) = Cardinality(Selected)
       /\ summary[1] = Cardinality(BothWritten)

C4_Witness ==
  /\ pc = "exit" /\ summary = Some(1)
  /\ Len(calls) >= 2
  /\ ~calls[1].interlaced
  /\ calls[Len(calls)].interlaced /\ calls[Len(calls)].rgb
  /\ Cardinality(errors) = Len(calls) - 1

ShortRead == InCall /\ pc # "load" /\ cur.readable /\ cur.len < Total(DriverGeometry)

(* C5: a readable file holding fewer than PAD + H*W elements (an empty    *)
(* file, a file shorter than the header) makes load_prores_raw raise the   *)
(* shape error of the reshape; the call writes nothing, names the file in  *)
(* its error line and returns (None, None).                                *)
C5_ShortInputFails ==
  ShortRead =>
    /\ pc \in {"except", "returned"}
    /\ cur.exc = "ValueError"
    /\ cur.interlaced_path = None /\ cur.rgb_path = None
    /\ \A k \in 1 .. Len(calls) : calls[k].idx # cur.idx
    /\ pc = "returned" =>
         /\ ret = <<None, None>>
         /\ cur.raw_file[1] \in errors
         /\ Cardinality(disk) <= 2 * Len(calls)

C5_Witness ==
  /\ pc = "returned"
  /\ cur.readable /\ cur.len = 1 /\ cur.len < DriverGeometry.padding
  /\ ret = <<None, None>>
  /\ cur.raw_file[1] \in errors
  /\ disk = {}

(* the directory C6 places the outputs of an input in *)
PlacementDir(f) == IF args.output_dir # None THEN args.output_dir[1] ELSE f.dir

(* C6: a successful conversion writes exactly two files,                   *)
(* <stem>_interlaced.png and <stem>_rgb.png, into the output directory     *)
(* when one is specified and into the input file's own directory when none *)
(* is.                                                                     *)
C6_OutputPlacement ==
  pc = "returned" /\ Counted(ret) =>
    LET f == cur.raw_file[1]
        want_i == [dir |-> PlacementDir(f), name |-> <<f.stem, "_interlaced.png">>]
        want_r == [dir |-> PlacementDir(f), name |-> <<f.stem, "_rgb.png">>]
    IN /\ ret = <<Some(want_i), Some(want_r)>>
       /\ want_i \in disk /\ want_r \in disk

PreviewPath(idx) == output_path(args.output_dir, raw_files[idx + 1], "_interlaced.png")

(* C9: the preview is written before the RGB image and nothing is cleaned  *)
(* up: a call writes its RGB image only after its preview write            *)
(* succeeded; when the preview write succeeded and the RGB write failed    *)
(* the preview stays on disk, the call returns (None, None) and the file   *)
(* is not counted.                                                         *)
C9_NoPartialCleanup ==
  /\ cur.rgb_path # None => cur.interlaced_path # None
  /\ pc = "save_rgb" => cur.interlaced_path # None /\ cur.rgb_path = None
  /\ \A k \in 1 .. Len(calls) :
       /\ calls[k].rgb => calls[k].interlaced
       /\ calls[k].interlaced => PreviewPath(calls[k].idx) \in disk
  /\ InCall /\ cur.interlaced_path # None => cur.interlaced_path[1] \in disk
  /\ pc = "returned" /\ cur.interlaced_path # None /\ cur.rgb_path = None =>
       ret = <<None, None>> /\ ~Counted(ret)
  /\ converted_count = Cardinality(BothWritten)

C9_Witness ==
  /\ pc = "exit" /\ summary = Some(0)
  /\ Len(calls) = 1
  /\ calls[1].interlaced /\ ~calls[1].rgb
  /\ disk = {PreviewPath(calls[1].idx)}

(* the output directory is specified and cannot be created: its path is    *)
(* something that is no directory, or it is absent and os.makedirs failed  *)
Uncreatable ==
  /\ args.output_dir # None
  /\ \/ outdir = "file"
     \/ outdir = "absent" /\ pc \notin {"glob", "mkdir"} /\ raw_files # <<>>

(* C10: when the output directory is specified and cannot be created the   *)
(* run is aborted before any conversion: no file is processed, nothing is  *)
(* written and no summary is printed.                                      *)
C10_OutputDirFatal ==
  Uncreatable =>
    /\ ~InCall /\ calls = <<>>
    /\ disk = {}
    /\ summary = None

====
